---- MODULE Spec2Model ----
(***************************************************************************)
(* Model of the Deal Viewer backend (deal-viewer/backend/config.py and     *)
(* app.py): the PostgREST query builder, the in-memory TTL cache and the   *)
(* federated products listing (get_products).                              *)
(*                                                                         *)
(* Conventions.  A Python value that may be None is a sequence of length   *)
(* at most one: None is <<>> and a present value v is <<v>>.  Timestamps   *)
(* (ISO strings in the program) are positive integers in the same order;   *)
(* the empty string, which is below every timestamp, is 0.                 *)
(***************************************************************************)
EXTENDS Integers, Sequences, FiniteSets, TLC

None == <<>>
Some(v) == <<v>>
IsNone(x) == x = <<>>
Val(x) == x[1]

\* Python truthiness of an optional number: None and 0 are falsy.
Truthy(x) == x # <<>> /\ x[1] # 0

\* Python `a or b` on optional numbers.
Or(a, b) == IF Truthy(a) THEN a ELSE b

\* the same for optional strings: None and "" are falsy
TruthyS(x) == x # <<>> /\ x[1] # ""
OrS(a, b) == IF TruthyS(a) THEN a ELSE b

\* row.get(col): None when the row has no such column
Get(row, col) == IF col \in DOMAIN row THEN row[col] ELSE None

\* row.get(col, default)
GetDefault(row, col, default) == IF col \in DOMAIN row THEN row[col] ELSE default

Min(a, b) == IF a <= b THEN a ELSE b
Max(a, b) == IF a >= b THEN a ELSE b

\* dict assignment d[k] = v
Put(d, k, v) == [x \in (DOMAIN d) \cup {k} |-> IF x = k THEN v ELSE d[x]]

EmptyDict == [x \in {} |-> None]

(***************************************************************************)
(* State                                                                   *)
(***************************************************************************)
VARIABLES
    \* -- SimpleCache (config.py 376-406)
    _store,      \* SimpleCache._store: key -> None or Some([value, expires_at])
    now,         \* the value time.time() returns
    th,          \* per request thread: the cache call it is executing
    lastSet,     \* history: per key, the latest set not followed by an invalidate
    everSet,     \* history: per key, every value some set stored
    calls,       \* history: the number of cache calls made so far
    \* -- QueryBuilder (config.py 82-253)
    qb,          \* the fields of one QueryBuilder
    qbCalls,     \* number of chain calls made on it
    qbSent,      \* history: the requests sent by the executes since the last chain call
    qbBefore,    \* history: the builder as it was when the first of those executes began
    qbResult,    \* the last execute: the reply it got, what it raised and returned
    \* -- get_products (app.py 509-820) and the backing store
    db,          \* the backing store: table name -> sequence of rows
    req,         \* the parsed query parameters of the request being served
    pc,          \* the position of get_products
    ti,          \* the index of the `for table in DEAL_TABLES` loop
    all_products,\* the list all_products
    merged,      \* history: all_products as it was when the post-fetch filtering began
    report,      \* history: per source of the request, what its query did
    sent,        \* history: per source, the request sent and the number of rows it gave
    response,    \* the response of the last request
    \* -- get_product (app.py 824-959) and health (app.py 230-246)
    ep,          \* the endpoint call being served: its position and what it has read
    epResponse   \* the response of the last such call

cacheVars == <<_store, now, th, lastSet, everSet, calls>>
qbVars == <<qb, qbCalls, qbSent, qbBefore, qbResult>>
plVars == <<db, req, pc, ti, all_products, merged, report, sent, response>>
epVars == <<ep, epResponse>>
vars == <<_store, now, th, lastSet, everSet, calls, qb, qbCalls, qbSent, qbBefore, qbResult,
          db, req, pc, ti, all_products, merged, report, sent, response, ep, epResponse>>

(***************************************************************************)
(* SimpleCache (config.py 376-406)                                         *)
(***************************************************************************)
\* Bounds of the cache model
NumThreads == 2
MaxTime == 3
MaxTTL == 2
MaxCalls == 4

Threads == 1..NumThreads
Keys == {"filters", "stats"}
Values == {"v1", "v2"}
TTLs == 1..MaxTTL

Idle == [pc |-> "idle", op |-> "none", key |-> "none", value |-> None,
         expires_at |-> 0, at |-> 0, ret |-> None]

CacheInit ==
    /\ _store = [k \in Keys |-> None]
    /\ now = 0
    /\ th = [t \in Threads |-> Idle]
    /\ lastSet = [k \in Keys |-> None]
    /\ everSet = [k \in Keys |-> {}]
    /\ calls = 0

\* time passes
Tick ==
    /\ now < MaxTime
    /\ now' = now + 1
    /\ UNCHANGED <<_store, th, lastSet, everSet, calls, qbVars, plVars, epVars>>

\* a request thread enters get(key)
GetCall(t, k) ==
    /\ th[t].pc = "idle"
    /\ calls < MaxCalls
    /\ calls' = calls + 1
    /\ th' = [th EXCEPT ![t] = [Idle EXCEPT !.pc = "get_in", !.op = "get", !.key = k]]
    /\ UNCHANGED <<_store, now, lastSet, everSet, qbVars, plVars, epVars>>

\* `if key in self._store:` (384); a missing key returns None (392)
GetIn(t) ==
    /\ th[t].pc = "get_in"
    /\ th' = [th EXCEPT ![t].pc =
                    IF _store[th[t].key] # None THEN "get_read" ELSE "returned",
                         ![t].at = now]
    /\ UNCHANGED <<_store, now, lastSet, everSet, calls, qbVars, plVars, epVars>>

\* `value, expires_at = self._store[key]` (385); KeyError when the key is gone
GetRead(t) ==
    /\ th[t].pc = "get_read"
    /\ th' = [th EXCEPT ![t] =
                IF _store[th[t].key] # None
                THEN [@ EXCEPT !.pc = "get_cmp",
                               !.value = Some(Val(_store[th[t].key]).value),
                               !.expires_at = Val(_store[th[t].key]).expires_at]
                ELSE [@ EXCEPT !.pc = "raised"]]
    /\ UNCHANGED <<_store, now, lastSet, everSet, calls, qbVars, plVars, epVars>>

\* mutant: the expiry is never looked at
GetFresh_NoExpiry(time, expires_at) == TRUE

\* `time.time() < expires_at` (386)
GetFresh(time, expires_at) == time < expires_at

\* `if time.time() < expires_at: return value` (386-388), else go on to evict
GetCmp(t) ==
    /\ th[t].pc = "get_cmp"
    /\ th' = [th EXCEPT ![t] =
                IF GetFresh(now, th[t].expires_at)
                THEN [@ EXCEPT !.pc = "returned", !.ret = th[t].value, !.at = now]
                ELSE [@ EXCEPT !.pc = "get_del", !.at = now]]
    /\ UNCHANGED <<_store, now, lastSet, everSet, calls, qbVars, plVars, epVars>>

\* `del self._store[key]` (390), KeyError when the key is gone; return None (392)
GetDel(t) ==
    /\ th[t].pc = "get_del"
    /\ IF _store[th[t].key] # None
       THEN /\ _store' = [_store EXCEPT ![th[t].key] = None]
            /\ th' = [th EXCEPT ![t].pc = "returned"]
       ELSE /\ _store' = _store
            /\ th' = [th EXCEPT ![t].pc = "raised"]
    /\ UNCHANGED <<now, lastSet, everSet, calls, qbVars, plVars, epVars>>

\* `time.time() + ttl_seconds` (396)
SetExpiry(time, ttl_seconds) == time + ttl_seconds

\* set(key, value, ttl_seconds): one dict store (394-397)
CacheSet(t, k, v, ttl) ==
    /\ th[t].pc = "idle"
    /\ calls < MaxCalls
    /\ calls' = calls + 1
    /\ _store' = [_store EXCEPT ![k] = Some([value |-> v, expires_at |-> SetExpiry(now, ttl)])]
    /\ th' = [th EXCEPT ![t] = [Idle EXCEPT !.pc = "returned", !.op = "set", !.key = k]]
    /\ lastSet' = [lastSet EXCEPT ![k] = Some([value |-> v, at |-> now, ttl |-> ttl])]
    /\ everSet' = [everSet EXCEPT ![k] = @ \cup {v}]
    /\ UNCHANGED <<now, qbVars, plVars, epVars>>

\* invalidate(None): `self._store.clear()` (401-403)
InvalidateAll(t) ==
    /\ th[t].pc = "idle"
    /\ calls < MaxCalls
    /\ calls' = calls + 1
    /\ _store' = [k \in Keys |-> None]
    /\ th' = [th EXCEPT ![t] = [Idle EXCEPT !.pc = "returned", !.op = "invalidate"]]
    /\ lastSet' = [k \in Keys |-> None]
    /\ UNCHANGED <<now, everSet, qbVars, plVars, epVars>>

\* a request thread enters invalidate(key)
InvalidateCall(t, k) ==
    /\ th[t].pc = "idle"
    /\ calls < MaxCalls
    /\ calls' = calls + 1
    /\ th' = [th EXCEPT ![t] = [Idle EXCEPT !.pc = "inv_in", !.op = "invalidate", !.key = k]]
    /\ UNCHANGED <<_store, now, lastSet, everSet, qbVars, plVars, epVars>>

\* `elif key in self._store:` (404)
InvalidateIn(t) ==
    /\ th[t].pc = "inv_in"
    /\ th' = [th EXCEPT ![t].pc =
                IF _store[th[t].key] # None THEN "inv_del" ELSE "returned"]
    /\ UNCHANGED <<_store, now, lastSet, everSet, calls, qbVars, plVars, epVars>>

\* `del self._store[key]` (405), KeyError when the key is gone
InvalidateDel(t) ==
    /\ th[t].pc = "inv_del"
    /\ IF _store[th[t].key] # None
       THEN /\ _store' = [_store EXCEPT ![th[t].key] = None]
            /\ th' = [th EXCEPT ![t].pc = "returned"]
            /\ lastSet' = [lastSet EXCEPT ![th[t].key] = None]
       ELSE /\ _store' = _store
            /\ th' = [th EXCEPT ![t].pc = "raised"]
            /\ lastSet' = lastSet
    /\ UNCHANGED <<now, everSet, calls, qbVars, plVars, epVars>>

\* the call is over (returned or raised); the thread serves its next request
CacheReturn(t) ==
    /\ th[t].pc \in {"returned", "raised"}
    /\ th' = [th EXCEPT ![t] = Idle]
    /\ UNCHANGED <<_store, now, lastSet, everSet, calls, qbVars, plVars, epVars>>

NoCallInFlight == \A t \in Threads : th[t].pc = "idle"

(***************************************************************************)
(* QueryBuilder and QueryResult (config.py 74-253)                         *)
(***************************************************************************)
\* QueryBuilder.__init__ (88-98)
NewBuilder(table_name) ==
    [_table |-> table_name, _select_cols |-> "*", _filters |-> <<>>,
     _order_col |-> None, _order_desc |-> FALSE, _limit_val |-> None,
     _offset_val |-> None, _count_only |-> FALSE, _count_mode |-> None]

\* select(columns, count) (100-104)
select(b, columns, count) ==
    [b EXCEPT !._select_cols = columns,
              !._count_mode = IF count = Some("exact") THEN Some("exact") ELSE @]

\* `self._filters.append((col, op, value))`, shared by the predicate methods
AddFilter(b, col, op, value) == [b EXCEPT !._filters = Append(@, <<col, op, value>>)]

eq(b, col, value) == AddFilter(b, col, "eq", value)
neq(b, col, value) == AddFilter(b, col, "neq", value)
gt(b, col, value) == AddFilter(b, col, "gt", value)
gte(b, col, value) == AddFilter(b, col, "gte", value)
lt(b, col, value) == AddFilter(b, col, "lt", value)
lte(b, col, value) == AddFilter(b, col, "lte", value)
ilike(b, col, pattern) == AddFilter(b, col, "ilike", pattern)
in_(b, col, values) == AddFilter(b, col, "in", values)
is_(b, col, value) == AddFilter(b, col, "is", value)
contains(b, col, value) == AddFilter(b, col, "cs", value)
not_contains(b, col, value) == AddFilter(b, col, "not.cs", value)
not_is(b, col, value) == AddFilter(b, col, "not.is", value)

\* order(col, desc) (163-166)
order(b, col, desc) == [b EXCEPT !._order_col = Some(col), !._order_desc = desc]

\* limit(n) (168-170)
limit(b, n) == [b EXCEPT !._limit_val = Some(n)]

\* offset(n) (172-174)
offset(b, n) == [b EXCEPT !._offset_val = Some(n)]

\* The text "<op>.<value>" of one predicate (194-212), kept as the pair the
\* server parses it back into.  Every branch of the if-chain writes the
\* operator it was given followed by the value.
FilterParam(op, value) == <<op, value>>

\* `for col, op, value in self._filters: params[col] = ...` (193-212):
\* params is a dict keyed by the column name.
RECURSIVE ApplyFilters(_, _)
ApplyFilters(params, fs) ==
    IF fs = <<>> THEN params
    ELSE ApplyFilters(Put(params, Head(fs)[1], FilterParam(Head(fs)[2], Head(fs)[3])),
                      Tail(fs))

\* the query parameters execute() builds (190-217)
ExecuteParams(b) ==
    LET p0 == [x \in {"select"} |-> <<b._select_cols>>]
        p1 == ApplyFilters(p0, b._filters)
    IN  IF b._order_col # None
        THEN Put(p1, "order", <<Val(b._order_col),
                                IF b._order_desc THEN "desc" ELSE "asc", "nullslast">>)
        ELSE p1

\* the extra headers execute() builds (219-230)
ExecuteHeaders(b) ==
    LET h0 == EmptyDict
        start == IF Truthy(b._offset_val) THEN Val(b._offset_val) ELSE 0
        h1 == IF b._limit_val # None
              THEN Put(Put(h0, "Range", <<start, start + Val(b._limit_val) - 1>>),
                       "Range-Unit", <<"items">>)
              ELSE h0
    IN  IF b._count_mode = Some("exact") THEN Put(h1, "Prefer", <<"count=exact">>) ELSE h1

\* SupabaseREST.headers (48-53); the key itself is of no interest
ClientHeaders ==
    [x \in {"apikey", "Authorization", "Content-Type", "Prefer"} |->
        CASE x = "apikey" -> <<"key">>
          [] x = "Authorization" -> <<"Bearer key">>
          [] x = "Content-Type" -> <<"application/json">>
          [] OTHER -> <<"return=representation">>]

\* `merged_headers = {**self.headers}; merged_headers.update(headers)` (66-68)
MergeHeaders(base, extra) ==
    [x \in (DOMAIN base) \cup (DOMAIN extra) |->
        IF x \in DOMAIN extra THEN extra[x] ELSE base[x]]

\* the request execute() makes through SupabaseREST._request (233, 63-69)
ExecuteRequest(b) ==
    [method |-> "GET", path |-> b._table, params |-> ExecuteParams(b),
     headers |-> MergeHeaders(ClientHeaders, ExecuteHeaders(b))]

\* int(total_part), ValueError as None (241-244); the strings are the ones
\* the modelled server sends
ParseTotal(total_part) ==
    CASE total_part = "0" -> Some(0)
      [] total_part = "1" -> Some(1)
      [] total_part = "7" -> Some(7)
      [] OTHER -> None

\* mutant: an unknown total is reported as zero
ParseCount_UnknownIsZero(content_range) ==
    IF Len(content_range) >= 2
    THEN LET total_part == content_range[Len(content_range)]
         IN  IF ParseTotal(total_part) # None THEN ParseTotal(total_part) ELSE Some(0)
    ELSE Some(0)

\* the count read off the Content-Range header (236-244).  The header is the
\* sequence of its parts between "/" ("0-9/7" is <<"0-9", "7">>); a missing
\* header is the empty string, <<"">>.
ParseCount(content_range) ==
    IF Len(content_range) >= 2
    THEN LET total_part == content_range[Len(content_range)]
         IN  IF total_part # "*" THEN ParseTotal(total_part) ELSE None
    ELSE None

\* QueryResult.__init__ (76-79)
QueryResult(data, count, error) == [data |-> data, count |-> count, error |-> error]

\* What execute() returns for a reply of the server (232-253).  A reply is
\* "ok" (a 2xx response), "status" (raise_for_status raises HTTPStatusError),
\* "transport" (the connection failed or timed out) or "badjson" (resp.json()
\* raises); the three failures are caught and become a QueryResult with an
\* error and no data.
ExecuteResult(reply) ==
    IF reply.kind = "ok"
    THEN QueryResult(reply.rows, ParseCount(reply.content_range), None)
    ELSE QueryResult(<<>>, None, Some(reply.kind))

\* The exception execute() lets through to its caller (232-253): none.
\* HTTPStatusError is caught at 248, every other exception (a connection
\* failure, a timeout, a body resp.json() cannot parse) at 251, and both
\* handlers return a QueryResult.
ExecuteRaises(reply) == None

\* execute() as its caller sees it
ExecuteOutcome(reply) ==
    [reply |-> reply.kind, content_range |-> reply.content_range,
     raised |-> ExecuteRaises(reply), result |-> ExecuteResult(reply)]

\* mutant: execute() consumes the predicates it has sent
ExecuteBuilder_Consumes(b) == [b EXCEPT !._filters = <<>>]

\* the builder fields after execute(): the method assigns none of them (188-253)
ExecuteBuilder(b) == b

\* the JSON object {"source": "cocopricetracker.ca"} (app.py 624, 700)
CocoSource == [source |-> "cocopricetracker.ca"]

\* Bounds of the builder model
MaxChain == 2

Cols == {"current_price", "brand"}
PredVals == {10, 20}
Pattern == "%tv%"
Replies ==
    {[kind |-> "ok", rows |-> <<[id |-> Some(1)]>>, content_range |-> <<"0-0", "7">>],
     [kind |-> "ok", rows |-> <<>>, content_range |-> <<"*", "0">>],
     [kind |-> "ok", rows |-> <<[id |-> Some(1)]>>, content_range |-> <<"0-0", "*">>],
     [kind |-> "ok", rows |-> <<[id |-> Some(1)]>>, content_range |-> <<"0-0", "many">>],
     [kind |-> "ok", rows |-> <<[id |-> Some(1)]>>, content_range |-> <<"">>],
     [kind |-> "status", rows |-> <<>>, content_range |-> <<"">>],
     [kind |-> "transport", rows |-> <<>>, content_range |-> <<"">>],
     [kind |-> "badjson", rows |-> <<>>, content_range |-> <<"">>]}

QbInit ==
    /\ qb = NewBuilder("deals")
    /\ qbCalls = 0
    /\ qbSent = <<>>
    /\ qbBefore = None
    /\ qbResult = None

\* a chain call: the builder is changed and returned
Chain(b) ==
    /\ qbCalls < MaxChain
    /\ qb' = b
    /\ qbCalls' = qbCalls + 1
    /\ qbSent' = <<>>
    /\ qbBefore' = None
    /\ qbResult' = None
    /\ UNCHANGED <<cacheVars, plVars, epVars>>

QbSelect == \E a \in {<<"*", None>>, <<"id", Some("exact")>>} : Chain(select(qb, a[1], a[2]))
QbEq == \E c \in Cols : Chain(eq(qb, c, 10))
QbNeq == \E c \in Cols : Chain(neq(qb, c, 10))
QbGt == \E c \in Cols : Chain(gt(qb, c, 10))
QbGte == \E c \in Cols : Chain(gte(qb, c, 10))
QbLt == \E c \in Cols : Chain(lt(qb, c, 10))
QbLte == \E c \in Cols : Chain(lte(qb, c, 20))
QbIlike == \E c \in Cols : Chain(ilike(qb, c, Pattern))
QbIn == \E c \in Cols : Chain(in_(qb, c, PredVals))
QbIs == \E c \in Cols : Chain(is_(qb, c, "null"))
QbContains == \E c \in Cols : Chain(contains(qb, c, CocoSource))
QbNotContains == \E c \in Cols : Chain(not_contains(qb, c, CocoSource))
QbNotIs == \E c \in Cols : Chain(not_is(qb, c, "null"))
QbOrder == \E c \in Cols, d \in BOOLEAN : Chain(order(qb, c, d))
QbLimit == \E n \in {0, 2} : Chain(limit(qb, n))
QbOffset == \E n \in {0, 1} : Chain(offset(qb, n))

\* execute() (188-253) against a server that may answer anything
QbExecute ==
    \E reply \in Replies :
        /\ qbSent' = IF Len(qbSent) < 2 THEN Append(qbSent, ExecuteRequest(qb))
                     ELSE <<qbSent[2], ExecuteRequest(qb)>>
        /\ qbBefore' = IF qbSent = <<>> THEN Some(qb) ELSE qbBefore
        /\ qbResult' = Some(ExecuteOutcome(reply))
        /\ qb' = ExecuteBuilder(qb)
        /\ UNCHANGED <<qbCalls, cacheVars, plVars, epVars>>

(***************************************************************************)
(* The backing store: the PostgREST server answering one request           *)
(* (the far end of SupabaseREST._request, config.py 63-71)                 *)
(***************************************************************************)
\* one predicate "<col>=<op>.<value>" on one row; a NULL column satisfies
\* nothing but `is.null`
RowSatisfies(row, col, param) ==
    LET op == param[1]
        value == param[2]
        x == Get(row, col)
    IN  IF x = None THEN op = "is" /\ value = "null"
        ELSE CASE op = "eq" -> Val(x) = value
               [] op = "neq" -> Val(x) # value
               [] op = "gt" -> Val(x) > value
               [] op = "gte" -> Val(x) >= value
               [] op = "lt" -> Val(x) < value
               [] op = "lte" -> Val(x) <= value
               [] op = "in" -> Val(x) \in value
               [] op = "cs" -> Val(x).source = value.source
               [] op = "not.cs" -> Val(x).source # value.source
               [] op = "is" -> FALSE
               [] op = "not.is" -> value = "null"
               [] OTHER -> FALSE

\* the rows that satisfy every predicate of the query string
RowMatches(row, params) ==
    \A col \in (DOMAIN params) \ {"select", "order"} : RowSatisfies(row, col, params[col])

\* stable insertion of x into a sequence sorted by the integer key k
InsertByKey(sorted, x, reverse) ==
    LET n == Cardinality({i \in 1..Len(sorted) :
                            IF reverse THEN sorted[i].k >= x.k ELSE sorted[i].k <= x.k})
    IN  SubSeq(sorted, 1, n) \o <<x>> \o SubSeq(sorted, n + 1, Len(sorted))

\* list.sort(key=..., reverse=...) (761-768): a stable sort; with reverse=True
\* items of equal key still keep their original order
RECURSIVE StableSort(_, _)
StableSort(s, reverse) ==
    IF s = <<>> THEN <<>>
    ELSE InsertByKey(StableSort(SubSeq(s, 1, Len(s) - 1), reverse), s[Len(s)], reverse)

\* ORDER BY <col> <asc|desc> NULLS LAST
OrderRows(rows, params) ==
    IF "order" \notin DOMAIN params THEN rows
    ELSE LET col == params["order"][1]
             desc == params["order"][2] = "desc"
             have == SelectSeq(rows, LAMBDA r : Get(r, col) # None)
             nulls == SelectSeq(rows, LAMBDA r : Get(r, col) = None)
             keyed == [i \in 1..Len(have) |-> [k |-> Val(Get(have[i], col)), v |-> have[i]]]
             sorted == StableSort(keyed, desc)
         IN  [i \in 1..Len(sorted) |-> sorted[i].v] \o nulls

\* the window of the Range header: items start..end, counted from 0
RangeRows(rows, headers) ==
    IF "Range" \notin DOMAIN headers THEN rows
    ELSE LET start == headers["Range"][1]
             end == headers["Range"][2]
         IN  IF start >= Len(rows) THEN <<>>
             ELSE SubSeq(rows, start + 1, Min(end + 1, Len(rows)))

\* the rows a 2xx response to the request carries
StoreSelect(tables, request) ==
    RangeRows(OrderRows(SelectSeq(tables[request.path],
                                  LAMBDA r : RowMatches(r, request.params)),
                        request.params),
              request.headers)

(***************************************************************************)
(* Table registry (config.py 277-287)                                      *)
(***************************************************************************)
DEAL_TABLES == <<
    [name |-> "deals", source |-> None, date_col |-> "date_added", store_col |-> "store"],
    [name |-> "amazon_ca_deals", source |-> Some("amazon_ca"), date_col |-> "created_at", store_col |-> "store"],
    [name |-> "cabelas_ca_deals", source |-> Some("cabelas_ca"), date_col |-> "created_at", store_col |-> "store"],
    [name |-> "frank_and_oak_deals", source |-> Some("frank_and_oak"), date_col |-> "created_at", store_col |-> "store"],
    [name |-> "leons_deals", source |-> Some("leons"), date_col |-> "created_at", store_col |-> "store"],
    [name |-> "mastermind_toys_deals", source |-> Some("mastermind_toys"), date_col |-> "created_at", store_col |-> "store"],
    [name |-> "reebok_ca_deals", source |-> Some("reebok_ca"), date_col |-> "created_at", store_col |-> "store"],
    [name |-> "the_brick_deals", source |-> Some("the_brick"), date_col |-> "created_at", store_col |-> "store"],
    [name |-> "yepsavings_deals", source |-> Some("yepsavings"), date_col |-> "created_date", store_col |-> "store_name"] >>

TableNames ==
    {DEAL_TABLES[i].name : i \in 1..Len(DEAL_TABLES)}
    \cup {"retailer_products", "costco_user_photos", "deal_price_history", "price_history"}

(***************************************************************************)
(* Normalization (app.py 77-201).  Of the Product only the fields that     *)
(* filtering, sorting and pagination read are kept, and the title and the  *)
(* store: region, image_url and affiliate_url are left out here.           *)
(***************************************************************************)
\* table_name.replace("_deals", "") (79) on the names of DEAL_TABLES
StripDeals(table_name) ==
    CASE table_name = "deals" -> "deals"
      [] table_name = "amazon_ca_deals" -> "amazon_ca"
      [] table_name = "cabelas_ca_deals" -> "cabelas_ca"
      [] table_name = "frank_and_oak_deals" -> "frank_and_oak"
      [] table_name = "leons_deals" -> "leons"
      [] table_name = "mastermind_toys_deals" -> "mastermind_toys"
      [] table_name = "reebok_ca_deals" -> "reebok_ca"
      [] table_name = "the_brick_deals" -> "the_brick"
      [] table_name = "yepsavings_deals" -> "yepsavings"
      [] OTHER -> table_name

\* mutant: the identifier is the native row id alone
ProductId_NoPrefix(prefix, row) == ToString(Val(row["id"]))

\* f"{prefix}_{row['id']}" (81, 129, 153, 186)
ProductId(prefix, row) == prefix \o "_" \o ToString(Val(row["id"]))

\* normalize_deal (77-96)
normalize_deal(row, table_name, table_source) ==
    [id |-> ProductId(table_name, row),
     title |-> Val(OrS(OrS(Get(row, "title"), Get(row, "name")), Some(""))),
     brand |-> Get(row, "brand"),
     store |-> Val(OrS(OrS(OrS(Get(row, "store"), Get(row, "store_name")), table_source),
                       Some("Unknown"))),
     source |-> Val(OrS(OrS(Get(row, "source"), table_source), Some(StripDeals(table_name)))),
     current_price |-> Or(Get(row, "current_price"), Get(row, "price")),
     original_price |-> Get(row, "original_price"),
     discount_percent |-> Get(row, "discount_percent"),
     category |-> Get(row, "category"),
     is_active |-> GetDefault(row, "is_active", Some(TRUE)),
     first_seen_at |-> Or(Or(Or(Get(row, "date_added"), Get(row, "created_at")),
                             Get(row, "created_date")), Get(row, "first_seen_at")),
     last_seen_at |-> Or(Or(Or(Or(Get(row, "date_updated"), Get(row, "updated_at")),
                               Get(row, "last_seen_at")), Get(row, "created_at")),
                         Get(row, "created_date"))]

\* urlparse(url).hostname with "www." removed (115-116), on the URLs of the model
Hostname(url) ==
    CASE url = "https://www.amazon.ca/dp/B01" -> "amazon.ca"
      [] url = "https://www.leons.ca/p/1" -> "leons.ca"
      [] url = "https://www.bestbuy.ca/p/1" -> "bestbuy.ca"
      [] OTHER -> ""

\* `"_" in sku` (111) on the SKUs of the model
HasUnderscore(sku) == sku \in {"walmart_1001", "costco_2002"}

\* sku.split("_")[0] (112) on the SKUs of the model
SkuStore(sku) == IF sku = "walmart_1001" THEN "walmart" ELSE "costco"

\* the store normalize_retailer derives from retailer_sku and affiliate_url (106-126)
RetailerStore(row) ==
    LET sku == Val(OrS(Get(row, "retailer_sku"), Some("")))
    IN  IF HasUnderscore(sku) THEN SkuStore(sku)
        ELSE IF TruthyS(Get(row, "affiliate_url"))
        THEN LET hostname == Hostname(Val(Get(row, "affiliate_url")))
             IN  CASE hostname = "amazon.ca" -> "Amazon"
                   [] hostname = "leons.ca" -> "Leons"
                   [] hostname = "bestbuy.ca" -> "Bestbuy"
                   [] OTHER -> ""
        ELSE "Unknown"

\* the source normalize_retailer derives from retailer_sku and affiliate_url (106-126)
RetailerSource(row) ==
    LET sku == Val(OrS(Get(row, "retailer_sku"), Some("")))
    IN  IF HasUnderscore(sku) THEN "Flipp"
        ELSE IF TruthyS(Get(row, "affiliate_url"))
        THEN LET hostname == Hostname(Val(Get(row, "affiliate_url")))
             IN  CASE hostname = "amazon.ca" -> "Amazon"
                   [] hostname = "leons.ca" -> "Leons"
                   [] hostname = "bestbuy.ca" -> "Bestbuy"
                   [] OTHER -> ""
        ELSE "Flipp"

\* normalize_retailer (99-144)
normalize_retailer(row) ==
    [id |-> ProductId("retailer", row),
     title |-> Val(OrS(Get(row, "title"), Some(""))),
     brand |-> Get(row, "brand"),
     store |-> RetailerStore(row),
     source |-> RetailerSource(row),
     current_price |-> Get(row, "current_price"),
     original_price |-> Get(row, "original_price"),
     discount_percent |-> Or(Get(row, "sale_percentage"), Get(row, "discount_percent")),
     category |-> Get(row, "retailer_category"),
     is_active |-> GetDefault(row, "is_active", Some(TRUE)),
     first_seen_at |-> Get(row, "first_seen_at"),
     last_seen_at |-> Or(Get(row, "last_seen_at"), Get(row, "first_seen_at"))]

\* normalize_costco_photo (147-172)
normalize_costco_photo(row) ==
    [id |-> ProductId("costco_photo", row),
     title |-> Val(OrS(Get(row, "name"), Some(""))),
     brand |-> None,
     store |-> "Costco",
     source |-> Val(OrS(Get(row, "source"), Some("cocowest"))),
     current_price |-> Get(row, "price"),
     original_price |-> Get(row, "original_price"),
     discount_percent |-> Get(row, "discount_percent"),
     category |-> None,
     is_active |-> Some(TRUE),
     first_seen_at |-> Or(Get(row, "scraped_at"), Get(row, "created_at")),
     last_seen_at |-> Or(Get(row, "updated_at"), Get(row, "scraped_at"))]

\* normalize_cocoprice (175-201)
normalize_cocoprice(row) ==
    [id |-> ProductId("cocoprice", row),
     title |-> Val(OrS(Get(row, "title"), Some(""))),
     brand |-> Get(row, "brand"),
     store |-> "Costco",
     source |-> "cocopricetracker",
     current_price |-> Get(row, "current_price"),
     original_price |-> Get(row, "original_price"),
     discount_percent |-> Or(Get(row, "sale_percentage"), Get(row, "discount_percent")),
     category |-> Get(row, "retailer_category"),
     is_active |-> GetDefault(row, "is_active", Some(TRUE)),
     first_seen_at |-> Get(row, "first_seen_at"),
     last_seen_at |-> Or(Get(row, "last_seen_at"), Get(row, "first_seen_at"))]

(***************************************************************************)
(* get_products (app.py 509-820)                                           *)
(*                                                                         *)
(* The modelled requests carry no search, stores, regions, date_from,      *)
(* date_to or days parameter, so the branches that push those down are     *)
(* never taken and are left out.  The allow-list is a set of lower-case    *)
(* names (the program lower-cases each name before comparing it).          *)
(***************************************************************************)
\* the per-table fetch limit (567)
FetchCap == 500

\* mutant: the fetch limit grows with the page, without the ceiling
FetchLimit_NoCap(page, per_page) == page * per_page + per_page

FetchLimit(page, per_page) == Min(page * per_page + per_page, FetchCap)

\* `"deal" in s.lower()` (584) on the source names of the model
ContainsDeal(s) == s \in {"deals", "deal"}

\* the `continue` tests of the DEAL_TABLES loop (578-585)
DealTableSkipped(sources, table) ==
    /\ sources # {}
    /\ \/ (TruthyS(table.source) /\ Val(table.source) \notin sources)
       \/ /\ table.name = "deals"
          /\ {s \in sources : s \in {"rfd", "flipp", "amazon", "costco", "deals"}} = {}
          /\ ~ \E s \in sources : ContainsDeal(s)

\* include_retailer (621), include_costco (658), include_cocoprice (697)
IncludeRetailer(sources) ==
    sources = {} \/ \E s \in sources : s \in {"amazon", "leons", "retailer", "flipp"}
IncludeCostco(sources) ==
    sources = {} \/ \E s \in sources : s \in {"cocowest", "warehouse_runner"}
IncludeCocoprice(sources) == sources = {} \/ "cocopricetracker" \in sources

\* `if cond: query = f(query)`
When(cond, changed, query) == IF cond THEN changed ELSE query

\* the discount, price and on-sale predicates every source query gets, in
\* the order the program adds them (596-609, 633-646, 672-685, 703-716)
RangePredicates(q0, r, discount_col, price_col) ==
    LET q1 == When(r.min_discount # None, gte(q0, discount_col, Val(r.min_discount)), q0)
        q2 == When(r.max_discount # None, lte(q1, discount_col, Val(r.max_discount)), q1)
        q3 == When(r.max_price # None, lte(q2, price_col, Val(r.max_price)), q2)
        q4 == When(r.min_price # None, gte(q3, price_col, Val(r.min_price)), q3)
    IN  When(r.on_sale_only, gt(q4, discount_col, 0), q4)

\* the query for one table of DEAL_TABLES (588-611)
DealQuery(r, table) ==
    LET q0 == select(NewBuilder(table.name), "*", None)
        q1 == RangePredicates(q0, r, "discount_percent", "current_price")
    IN  limit(order(q1, table.date_col, ~r.ascending), FetchLimit(r.page, r.per_page))

\* the query for retailer_products without the CocoPriceTracker rows (624-648)
RetailerQuery(r) ==
    LET q0 == not_contains(select(NewBuilder("retailer_products"), "*", None),
                           "extra_data", CocoSource)
        q1 == When(r.brands_filter # {}, in_(q0, "brand", r.brands_filter), q0)
        q2 == When(r.categories_filter # {},
                   in_(q1, "retailer_category", r.categories_filter), q1)
        q3 == RangePredicates(q2, r, "sale_percentage", "current_price")
    IN  limit(order(q3, "first_seen_at", ~r.ascending), FetchLimit(r.page, r.per_page))

\* the query for costco_user_photos (661-687)
CostcoQuery(r) ==
    LET q0 == select(NewBuilder("costco_user_photos"), "*", None)
        costco_sources == {s \in r.sources : s \in {"cocowest", "warehouse_runner"}}
        q1 == When(costco_sources # {}, in_(q0, "source", costco_sources), q0)
        q2 == RangePredicates(q1, r, "discount_percent", "price")
    IN  limit(order(q2, "scraped_at", ~r.ascending), FetchLimit(r.page, r.per_page))

\* the query for the CocoPriceTracker rows of retailer_products (700-718)
CocopriceQuery(r) ==
    LET q0 == contains(select(NewBuilder("retailer_products"), "*", None),
                       "extra_data", CocoSource)
        q1 == RangePredicates(q0, r, "sale_percentage", "current_price")
    IN  limit(order(q1, "updated_at", ~r.ascending), FetchLimit(r.page, r.per_page))

\* query.execute() against the store: the reply is a 2xx response with the
\* selected rows, or one of the failures
Execute(tables, query, kind) ==
    ExecuteResult([kind |-> kind,
                   rows |-> IF kind = "ok" THEN StoreSelect(tables, ExecuteRequest(query))
                            ELSE <<>>,
                   content_range |-> <<"">>])

\* `for row in (result.data or []): all_products.append(normalize(row))`
NormalizeDeals(data, table) ==
    [i \in 1..Len(data) |-> normalize_deal(data[i], table.name, table.source)]
NormalizeRetailer(data) == [i \in 1..Len(data) |-> normalize_retailer(data[i])]
NormalizeCostco(data) == [i \in 1..Len(data) |-> normalize_costco_photo(data[i])]
NormalizeCocoprice(data) == [i \in 1..Len(data) |-> normalize_cocoprice(data[i])]

\* optional BOOLEAN truthiness
TruthyB(x) == x # <<>> /\ x[1]

\* post-fetch filtering (741-757)
PostFilter(products, r) ==
    LET p1 == IF r.has_price_drop
              THEN SelectSeq(products, LAMBDA p :
                       /\ Truthy(p.current_price) /\ Truthy(p.original_price)
                       /\ Val(p.current_price) < Val(p.original_price))
              ELSE products
        p2 == IF r.active_only THEN SelectSeq(p1, LAMBDA p : TruthyB(p.is_active)) ELSE p1
        p3 == IF r.brands_filter # {} /\ ~IncludeRetailer(r.sources)
              THEN SelectSeq(p2, LAMBDA p :
                       (p.brand # None /\ Val(p.brand) \in r.brands_filter)
                       \/ ~TruthyS(p.brand))
              ELSE p2
    IN  IF r.categories_filter # {} /\ ~IncludeRetailer(r.sources)
        THEN SelectSeq(p3, LAMBDA p :
                 (p.category # None /\ Val(p.category) \in r.categories_filter)
                 \/ ~TruthyS(p.category))
        ELSE p3

\* the sort field: anything but the three named fields means last_seen_at (760-768)
SortField(sort_by) ==
    IF sort_by \in {"discount_percent", "current_price", "first_seen_at"}
    THEN sort_by ELSE "last_seen_at"

\* `p.get(field) or 0`, `p.get(field) or ""` (761-768)
SortKey(p, sort_by) ==
    LET x == p[SortField(sort_by)] IN IF Truthy(x) THEN Val(x) ELSE 0

\* the sort of the combined results (759-768)
SortProducts(products, sort_by, ascending) ==
    LET keyed == [i \in 1..Len(products) |->
                      [k |-> SortKey(products[i], sort_by), v |-> products[i]]]
        sorted == StableSort(keyed, ~ascending)
    IN  [i \in 1..Len(sorted) |-> sorted[i].v]

\* mutant: the offset is taken from the page number itself
Paginate_FromPage(products, page, per_page) ==
    LET first == page * per_page
    IN  IF first >= Len(products) THEN <<>>
        ELSE SubSeq(products, first + 1, Min(first + per_page, Len(products)))

\* `all_products[offset:offset + per_page]` with offset = (page - 1) * per_page (772-773)
Paginate(products, page, per_page) ==
    LET first == (page - 1) * per_page
    IN  IF first >= Len(products) THEN <<>>
        ELSE SubSeq(products, first + 1, Min(first + per_page, Len(products)))

\* `(total + per_page - 1) // per_page` (817)
TotalPages(total, per_page) == (total + per_page - 1) \div per_page

(***************************************************************************)
(* The data of the model                                                   *)
(***************************************************************************)
NoRows == [t \in TableNames |-> <<>>]

Database ==
    [NoRows EXCEPT
     !["deals"] = <<
        [id |-> Some(1), source |-> Some("rfd"), title |-> Some("Kettle"),
         store |-> Some("Walmart"), current_price |-> Some(80),
         original_price |-> Some(100), discount_percent |-> Some(20),
         date_added |-> Some(5), date_updated |-> Some(6)],
        [id |-> Some(2), source |-> Some("amazon"), current_price |-> Some(120),
         original_price |-> None, discount_percent |-> Some(0),
         date_added |-> Some(3), date_updated |-> None],
        [id |-> Some(3), source |-> None, current_price |-> None, price |-> Some(40),
         original_price |-> Some(40), discount_percent |-> None,
         date_added |-> Some(7), date_updated |-> Some(7), is_active |-> Some(FALSE)] >>,
     !["amazon_ca_deals"] = <<
        [id |-> Some(1), title |-> Some("75% offLimited-time deal"),
         current_price |-> Some(80), original_price |-> Some(100),
         discount_percent |-> None, brand |-> Some("Acme"), created_at |-> Some(4)],
        [id |-> Some(2), title |-> Some("75% offNintendo Switch OLED"),
         current_price |-> Some(150), original_price |-> Some(250),
         discount_percent |-> Some(40), brand |-> Some("Bolt"), created_at |-> Some(8),
         updated_at |-> Some(9)] >>,
     !["leons_deals"] = <<
        [id |-> Some(1), title |-> Some("Sofa"), current_price |-> Some(200),
         original_price |-> Some(220), discount_percent |-> Some(10),
         category |-> Some("sofas"), is_active |-> None, created_at |-> Some(2)] >>,
     !["yepsavings_deals"] = <<
        [id |-> Some(1), title |-> Some("Tent"), store_name |-> Some("Costco"),
         current_price |-> Some(60), original_price |-> Some(90),
         discount_percent |-> Some(33), created_date |-> Some(4)] >>,
     !["retailer_products"] = <<
        [id |-> Some(1), retailer_sku |-> Some("walmart_1001"), current_price |-> Some(45),
         original_price |-> Some(75), sale_percentage |-> Some(40), brand |-> Some("Acme"),
         retailer_category |-> Some("toys"), extra_data |-> Some([source |-> "flipp"]),
         first_seen_at |-> Some(1), last_seen_at |-> Some(8)],
        [id |-> Some(2), retailer_sku |-> None,
         affiliate_url |-> Some("https://www.amazon.ca/dp/B01"), current_price |-> Some(70),
         original_price |-> None, sale_percentage |-> Some(0), brand |-> None,
         retailer_category |-> None, extra_data |-> Some([source |-> "keepa"]),
         first_seen_at |-> Some(6), last_seen_at |-> None],
        [id |-> Some(3), retailer_sku |-> Some("3003"), current_price |-> Some(90),
         original_price |-> Some(120), sale_percentage |-> Some(25), brand |-> Some("Bolt"),
         retailer_category |-> Some("tools"),
         extra_data |-> Some([source |-> "cocopricetracker.ca"]),
         first_seen_at |-> Some(2), last_seen_at |-> Some(9), updated_at |-> Some(9)] >>,
     !["costco_user_photos"] = <<
        [id |-> Some(1), source |-> Some("cocowest"), price |-> Some(55),
         discount_percent |-> None, scraped_at |-> Some(5)],
        [id |-> Some(2), source |-> Some("warehouse_runner"), price |-> Some(110),
         original_price |-> Some(130), discount_percent |-> Some(15),
         scraped_at |-> Some(3), updated_at |-> Some(4)] >>,
     !["deal_price_history"] = <<
        [deal_id |-> Some(2), price |-> Some(250), original_price |-> Some(250),
         scraped_at |-> Some(8), is_on_sale |-> Some(FALSE)],
        [deal_id |-> Some(2), price |-> Some(150), original_price |-> Some(250),
         scraped_at |-> Some(9), is_on_sale |-> Some(TRUE)] >>,
     !["price_history"] = <<
        [retailer_product_id |-> Some(3), price |-> Some(90), original_price |-> Some(120),
         scraped_at |-> Some(9)] >>]

Databases == {Database}

\* Bounds of the requests
MaxPage == 3
MaxPerPage == 2
MaxFailures == 1
LargeRaw == 1000

SourceLists == {{}, {"amazon"}, {"leons"}, {"cocowest"}, {"amazon_ca", "cocopricetracker"}}

NoFilter ==
    [min_discount |-> None, max_discount |-> None, min_price |-> None, max_price |-> None,
     on_sale_only |-> FALSE, has_price_drop |-> FALSE, active_only |-> FALSE,
     brands_filter |-> {}, categories_filter |-> {}]

Filters ==
    {NoFilter,
     [NoFilter EXCEPT !.min_price = Some(50)],
     [NoFilter EXCEPT !.min_price = Some(50), !.max_price = Some(100)],
     [NoFilter EXCEPT !.min_price = Some(500)],
     [NoFilter EXCEPT !.max_discount = Some(30)],
     [NoFilter EXCEPT !.min_discount = Some(10), !.max_discount = Some(30)],
     [NoFilter EXCEPT !.min_discount = Some(10), !.max_discount = Some(30),
                      !.on_sale_only = TRUE],
     [NoFilter EXCEPT !.has_price_drop = TRUE],
     [NoFilter EXCEPT !.active_only = TRUE],
     [NoFilter EXCEPT !.brands_filter = {"Acme"}],
     [NoFilter EXCEPT !.categories_filter = {"toys"}]}

SortBys == {"last_seen_at", "first_seen_at", "current_price", "discount_percent"}

\* the (sort_by, ascending) pairs of the modelled requests: every field, both directions
SortOrders == {<<"last_seen_at", FALSE>>, <<"first_seen_at", TRUE>>,
               <<"current_price", TRUE>>, <<"discount_percent", FALSE>>}

\* the values _parse_int gives for the raw page and per_page (559-560, 1222-1229)
\* None stands for an absent or non-numeric parameter
RawPages == {None, Some(LargeRaw)} \cup {Some(n) : n \in (-1)..MaxPage}
RawPerPages == {None, Some(LargeRaw)} \cup {Some(n) : n \in (-1)..MaxPerPage}

\* `max(1, _parse_int(...) or 1)` (559)
ParsePage(raw) == Max(1, Val(Or(raw, Some(1))))

\* mutant: per_page has a floor but no ceiling
ParsePerPage_NoCeiling(raw) == Max(1, Val(Or(raw, Some(24))))

\* `min(100, max(1, _parse_int(...) or 24))` (560)
ParsePerPage(raw) == Min(100, Max(1, Val(Or(raw, Some(24)))))

SourceSteps == {DEAL_TABLES[i].name : i \in 1..Len(DEAL_TABLES)} \cup {"retailer", "costco", "cocoprice"}

Failures == Cardinality({s \in SourceSteps : report[s] = "failed"})

\* the source get_products is at
CurrentStep == IF pc = "deal_tables" THEN DEAL_TABLES[ti].name ELSE pc

\* the sources whose query may fail in the modelled runs: two deal tables
\* and each of the three other queries
MayFail == {"deals", "amazon_ca_deals", "retailer", "costco", "cocoprice"}

\* the replies a source query may get
ReplyKinds ==
    {"ok"} \cup (IF CurrentStep \in MayFail /\ Failures < MaxFailures
                 THEN {"status", "transport", "badjson"} ELSE {})

PlInit ==
    /\ db \in Databases
    /\ req = None
    /\ pc = "idle"
    /\ ti = 1
    /\ all_products = <<>>
    /\ merged = <<>>
    /\ report = [s \in SourceSteps |-> "pending"]
    /\ sent = [s \in SourceSteps |-> None]
    /\ response = None

\* the parameters are parsed (535-567) and all_products starts empty (573)
Receive ==
    /\ pc = "idle"
    /\ \E srcs \in SourceLists, f \in Filters, so \in SortOrders,
          raw_page \in RawPages, raw_per_page \in RawPerPages :
          req' = Some([sources |-> srcs,
                       min_discount |-> f.min_discount, max_discount |-> f.max_discount,
                       min_price |-> f.min_price, max_price |-> f.max_price,
                       on_sale_only |-> f.on_sale_only, has_price_drop |-> f.has_price_drop,
                       active_only |-> f.active_only, brands_filter |-> f.brands_filter,
                       categories_filter |-> f.categories_filter,
                       sort_by |-> so[1], ascending |-> so[2],
                       page |-> ParsePage(raw_page), per_page |-> ParsePerPage(raw_per_page)])
    /\ pc' = "deal_tables"
    /\ ti' = 1
    /\ all_products' = <<>>
    /\ merged' = <<>>
    /\ report' = [s \in SourceSteps |-> "pending"]
    /\ sent' = [s \in SourceSteps |-> None]
    /\ response' = None
    /\ UNCHANGED <<db, cacheVars, qbVars, epVars>>

\* mutant: one try block around all the source queries, so that the first
\* failure ends the fetching
Advance_StopOnFailure(p, i, result) ==
    IF result.error # None THEN <<"merge", i>>
    ELSE CASE p = "deal_tables" ->
                IF i < Len(DEAL_TABLES) THEN <<"deal_tables", i + 1>> ELSE <<"retailer", i>>
           [] p = "retailer" -> <<"costco", i>>
           [] p = "costco" -> <<"cocoprice", i>>
           [] OTHER -> <<"merge", i>>

\* mutant: the merge begins right after the costco_user_photos query, before
\* the CocoPriceTracker rows are fetched
Advance_EarlyMerge(p, i, result) ==
    CASE p = "deal_tables" ->
            IF i < Len(DEAL_TABLES) THEN <<"deal_tables", i + 1>> ELSE <<"retailer", i>>
      [] p = "retailer" -> <<"costco", i>>
      [] OTHER -> <<"merge", i>>

\* mutant: a source query that fails never gives control back to get_products
Advance_Hang(p, i, result) ==
    IF result.error # None THEN <<"hung", i>>
    ELSE CASE p = "deal_tables" ->
                IF i < Len(DEAL_TABLES) THEN <<"deal_tables", i + 1>> ELSE <<"retailer", i>>
           [] p = "retailer" -> <<"costco", i>>
           [] p = "costco" -> <<"cocoprice", i>>
           [] OTHER -> <<"merge", i>>

\* where get_products goes after the query of one source: each source has
\* its own try/except, so the next source follows whatever the result
\* (576, 617-618, 620-623, 654-659, 693-699, 738-741)
Advance(p, i, result) ==
    CASE p = "deal_tables" ->
            IF i < Len(DEAL_TABLES) THEN <<"deal_tables", i + 1>> ELSE <<"retailer", i>>
      [] p = "retailer" -> <<"costco", i>>
      [] p = "costco" -> <<"cocoprice", i>>
      [] OTHER -> <<"merge", i>>

NotQueried == QueryResult(<<>>, None, None)

\* the result of one source: nothing when the source is skipped, else what
\* execute() returned
SourceResult(skipped, query, kind) ==
    IF skipped THEN NotQueried ELSE Execute(db, query, kind)

\* one source of the request is dealt with: it is skipped, or its query was
\* executed and its normalized rows are appended to all_products
SourceStep(step, skipped, query, result, normalized) ==
    LET next == Advance(pc, ti, result)
    IN  /\ all_products' = all_products \o normalized
        /\ report' = [report EXCEPT ![step] =
                        IF skipped THEN "skipped"
                        ELSE IF result.error # None THEN "failed" ELSE "ok"]
        /\ sent' = [sent EXCEPT ![step] =
                        IF skipped THEN None
                        ELSE Some([request |-> ExecuteRequest(query),
                                   rows |-> Len(result.data)])]
        /\ pc' = next[1]
        /\ ti' = next[2]
        /\ UNCHANGED <<db, req, merged, response, cacheVars, qbVars, epVars>>

\* one pass of `for table in DEAL_TABLES` (576-618)
QueryDealTable ==
    /\ pc = "deal_tables"
    /\ \E kind \in ReplyKinds :
          LET table == DEAL_TABLES[ti]
              skipped == DealTableSkipped(Val(req).sources, table)
              query == DealQuery(Val(req), table)
              result == SourceResult(skipped, query, kind)
          IN  SourceStep(table.name, skipped, query, result,
                         NormalizeDeals(result.data, table))

\* retailer_products without CocoPriceTracker (620-655)
QueryRetailer ==
    /\ pc = "retailer"
    /\ \E kind \in ReplyKinds :
          LET skipped == ~IncludeRetailer(Val(req).sources)
              query == RetailerQuery(Val(req))
              result == SourceResult(skipped, query, kind)
          IN  SourceStep("retailer", skipped, query, result, NormalizeRetailer(result.data))

\* costco_user_photos (657-694)
QueryCostco ==
    /\ pc = "costco"
    /\ \E kind \in ReplyKinds :
          LET skipped == ~IncludeCostco(Val(req).sources)
              query == CostcoQuery(Val(req))
              result == SourceResult(skipped, query, kind)
          IN  SourceStep("costco", skipped, query, result, NormalizeCostco(result.data))

\* CocoPriceTracker (696-739); the photo lookup that follows it only fills
\* image_url and swallows its own failures (720-732)
QueryCocoprice ==
    /\ pc = "cocoprice"
    /\ \E kind \in ReplyKinds :
          LET skipped == ~IncludeCocoprice(Val(req).sources)
              query == CocopriceQuery(Val(req))
              result == SourceResult(skipped, query, kind)
          IN  SourceStep("cocoprice", skipped, query, result,
                         NormalizeCocoprice(result.data))

\* the body of the response (812-820); its two other keys, applied_filters
\* (the filters of the request, 777-808) and query_time_ms, say nothing of
\* the sources and are left out
ResponseBody(sorted, r) ==
    [status |-> 200,
     products |-> Paginate(sorted, r.page, r.per_page),
     total |-> Len(sorted),
     page |-> r.page,
     per_page |-> r.per_page,
     total_pages |-> TotalPages(Len(sorted), r.per_page)]

\* post-fetch filtering, sorting, pagination and the response (741-820)
Respond ==
    /\ pc = "merge"
    /\ LET sorted == SortProducts(PostFilter(all_products, Val(req)),
                                  Val(req).sort_by, Val(req).ascending)
       IN  /\ merged' = all_products
           /\ all_products' = sorted
           /\ response' = Some(ResponseBody(sorted, Val(req)))
    /\ pc' = "done"
    /\ UNCHANGED <<db, req, ti, report, sent, cacheVars, qbVars, epVars>>

\* the response has been sent; nothing of the request is kept (573)
Return ==
    /\ pc = "done"
    /\ req' = None
    /\ pc' = "idle"
    /\ ti' = 1
    /\ all_products' = <<>>
    /\ merged' = <<>>
    /\ report' = [s \in SourceSteps |-> "pending"]
    /\ sent' = [s \in SourceSteps |-> None]
    /\ response' = None
    /\ UNCHANGED <<db, cacheVars, qbVars, epVars>>

(***************************************************************************)
(* Specifications                                                          *)
(***************************************************************************)
\* no endpoint call is being served
EpIdle ==
    [pc |-> "idle", endpoint |-> "none", product_id |-> "", route |-> None, data |-> None,
     row_reply |-> "none", history_reply |-> "none"]

EpInit ==
    /\ ep = EpIdle
    /\ epResponse = None

Init == CacheInit /\ QbInit /\ PlInit /\ EpInit

\* the products listing serving one request after the other
Next ==
    \/ Receive
    \/ QueryDealTable
    \/ QueryRetailer
    \/ QueryCostco
    \/ QueryCocoprice
    \/ Respond
    \/ Return

Spec == Init /\ [][Next]_vars

\* get_products is serving a request and has not yet answered it
Running == pc \in {"deal_tables", "retailer", "costco", "cocoprice", "merge"}

\* get_products moves on: the steps of Next that begin while a request is
\* being served are QueryDealTable, QueryRetailer, QueryCostco,
\* QueryCocoprice and Respond, and each of them changes the position
\* <<pc, ti>>; one of them is possible in every Running state
Proceed ==
    /\ Running
    /\ pc' \in {"deal_tables", "retailer", "costco", "cocoprice", "merge", "done"}
    /\ ti' \in 1..Len(DEAL_TABLES)

\* The products listing whose handler keeps running: every call of the
\* httpx client returns or raises within its timeout of 30 seconds
\* (config.py 54), the loops of get_products run over fixed lists, and
\* nothing in the handler waits for anything else.
SpecLive == Init /\ [][Next]_vars /\ WF_<<pc, ti>>(Proceed)

\* one QueryBuilder under any sequence of chain calls and executes
NextBuilder ==
    \/ QbSelect
    \/ QbEq
    \/ QbNeq
    \/ QbGt
    \/ QbGte
    \/ QbLt
    \/ QbLte
    \/ QbIlike
    \/ QbIn
    \/ QbIs
    \/ QbContains
    \/ QbNotContains
    \/ QbNotIs
    \/ QbOrder
    \/ QbLimit
    \/ QbOffset
    \/ QbExecute

SpecBuilder == Init /\ [][NextBuilder]_vars

\* a request thread makes a cache call
CacheCall(t) ==
    \/ \E k \in Keys : GetCall(t, k)
    \/ \E k \in Keys, v \in Values, ttl \in TTLs : CacheSet(t, k, v, ttl)
    \/ \E k \in Keys : InvalidateCall(t, k)
    \/ InvalidateAll(t)

\* a request thread goes on with the cache call it is in
CacheStep(t) ==
    \/ GetIn(t)
    \/ GetRead(t)
    \/ GetCmp(t)
    \/ GetDel(t)
    \/ InvalidateIn(t)
    \/ InvalidateDel(t)
    \/ CacheReturn(t)

\* the cache used by one request at a time: a call begins only when no other
\* call is in flight
SeqGetCall(t, k) == NoCallInFlight /\ GetCall(t, k)
SeqCacheSet(t, k, v, ttl) == NoCallInFlight /\ CacheSet(t, k, v, ttl)
SeqInvalidateCall(t, k) == NoCallInFlight /\ InvalidateCall(t, k)
SeqInvalidateAll(t) == NoCallInFlight /\ InvalidateAll(t)

NextCacheSeq ==
    \/ Tick
    \/ \E t \in Threads, k \in Keys : SeqGetCall(t, k)
    \/ \E t \in Threads, k \in Keys, v \in Values, ttl \in TTLs : SeqCacheSet(t, k, v, ttl)
    \/ \E t \in Threads, k \in Keys : SeqInvalidateCall(t, k)
    \/ \E t \in Threads : SeqInvalidateAll(t)
    \/ \E t \in Threads : CacheStep(t)

SpecCacheSeq == Init /\ [][NextCacheSeq]_vars

\* the cache used by request threads that run concurrently (the Flask
\* development server of app.py 1264 serves each request in its own thread)
NextCache ==
    \/ Tick
    \/ \E t \in Threads : CacheCall(t)
    \/ \E t \in Threads : CacheStep(t)

SpecCache == Init /\ [][NextCache]_vars

(***************************************************************************)
(* Properties of the products listing                                      *)
(***************************************************************************)
Responded == pc = "done"

\* the least k with k * b >= a
CeilDiv(a, b) == CHOOSE k \in 0..a : k * b >= a /\ \A j \in 0..a : j * b >= a => k <= j

\* C1: in every products-listing response total_pages equals
\* max(1, ceil(total / per_page)); it is 1 when total is 0.
C1_TotalPagesFloorOne ==
    Responded =>
        Val(response).total_pages
            = Max(1, CeilDiv(Val(response).total, Val(response).per_page))

\* two neighbours of the response are in the requested order of the sort
\* field, a product without a value for the field being below every value
InRequestedOrder(p, q, field, ascending) ==
    IF ascending
    THEN p[field] = None \/ (q[field] # None /\ Val(p[field]) <= Val(q[field]))
    ELSE q[field] = None \/ (p[field] # None /\ Val(p[field]) >= Val(q[field]))

\* C2: every adjacent pair of returned products is in the requested order of
\* the requested sort field and direction, and a product with no value for
\* the field is ordered lower than every product that has a value.
C2_SortedAbsentLowest ==
    Responded =>
        LET ps == Val(response).products
        IN  \A i \in 1..(Len(ps) - 1) :
                InRequestedOrder(ps[i], ps[i + 1], SortField(Val(req).sort_by),
                                 Val(req).ascending)

\* the pages 1..last of a sequence, one after the other
RECURSIVE PagesUpTo(_, _, _)
PagesUpTo(products, last, per_page) ==
    IF last = 0 THEN <<>>
    ELSE PagesUpTo(products, last - 1, per_page) \o Paginate(products, last, per_page)

\* C3: page p of the sorted merged sequence of n products is exactly the
\* items at positions [(p-1)*per_page, min(p*per_page, n)) in order; pages
\* 1..ceil(n/per_page) together are the whole sequence, each item once, and
\* every later page is empty.
C3_PageIsSlice ==
    Responded =>
        LET s == all_products
            n == Len(s)
            p == Val(req).page
            pp == Val(req).per_page
            ps == Val(response).products
            pages == CeilDiv(n, pp)
        IN  /\ Len(ps) = Max(0, Min(p * pp, n) - (p - 1) * pp)
            /\ \A i \in 1..Len(ps) : ps[i] = s[(p - 1) * pp + i]
            /\ PagesUpTo(s, pages, pp) = s
            /\ \A later \in (pages + 1)..(pages + MaxPage) : Paginate(s, later, pp) = <<>>

\* C3 witness: five merged products, two per page, and the third page holds one
C3_Witness ==
    /\ Responded
    /\ Len(all_products) = 5
    /\ Val(req).per_page = 2
    /\ Val(req).page = 3
    /\ Len(Val(response).products) = 1
    /\ Val(response).products[1] = all_products[5]

\* what the store holds for the sources of the request whose query succeeded,
\* normalized, in the order the program visits the sources
RECURSIVE SucceededDeals(_)
SucceededDeals(i) ==
    IF i = 0 THEN <<>>
    ELSE SucceededDeals(i - 1) \o
         (IF report[DEAL_TABLES[i].name] = "ok"
          THEN NormalizeDeals(
                   StoreSelect(db, ExecuteRequest(DealQuery(Val(req), DEAL_TABLES[i]))),
                   DEAL_TABLES[i])
          ELSE <<>>)

SucceededRows ==
    SucceededDeals(Len(DEAL_TABLES))
    \o (IF report["retailer"] = "ok"
        THEN NormalizeRetailer(StoreSelect(db, ExecuteRequest(RetailerQuery(Val(req)))))
        ELSE <<>>)
    \o (IF report["costco"] = "ok"
        THEN NormalizeCostco(StoreSelect(db, ExecuteRequest(CostcoQuery(Val(req)))))
        ELSE <<>>)
    \o (IF report["cocoprice"] = "ok"
        THEN NormalizeCocoprice(StoreSelect(db, ExecuteRequest(CocopriceQuery(Val(req)))))
        ELSE <<>>)

\* C4: when the query of one eligible source fails and the others succeed,
\* the request still gets a success response, whose products are the
\* filtered, sorted and paginated union of the succeeding sources' rows.
C4_PartialFailure ==
    (Responded /\ Failures >= 1) =>
        /\ Val(response).status = 200
        /\ \A s \in SourceSteps : report[s] \in {"ok", "failed", "skipped"}
        /\ Val(response).products
             = Paginate(SortProducts(PostFilter(SucceededRows, Val(req)),
                                     Val(req).sort_by, Val(req).ascending),
                        Val(req).page, Val(req).per_page)

\* C4 witness: the first table's query failed, two later sources succeeded
\* and their products are in the response
C4_Witness ==
    /\ Responded
    /\ report["deals"] = "failed"
    /\ report["amazon_ca_deals"] = "ok"
    /\ report["retailer"] = "ok"
    /\ \E i, j \in 1..Len(Val(response).products) :
          /\ Val(response).products[i].id = "amazon_ca_deals_1"
          /\ Val(response).products[j].id = "retailer_1"

\* C5: with both a lower and an upper bound on the price (or on the
\* discount), every returned product that has a value in that field
\* satisfies lower <= value <= upper.
C5_BothBoundsEnforced ==
    Responded =>
        \A i \in 1..Len(Val(response).products) :
            LET p == Val(response).products[i]
                r == Val(req)
            IN  /\ (r.min_price # None /\ r.max_price # None /\ p.current_price # None)
                      => /\ Val(r.min_price) <= Val(p.current_price)
                         /\ Val(p.current_price) <= Val(r.max_price)
                /\ (r.min_discount # None /\ r.max_discount # None
                        /\ p.discount_percent # None)
                      => /\ Val(r.min_discount) <= Val(p.discount_percent)
                         /\ Val(p.discount_percent) <= Val(r.max_discount)

\* C10: with a non-empty allow-list every product of the response has a
\* source key that is in the allow-list.
C10_OnlyAllowedSources ==
    (Responded /\ Val(req).sources # {}) =>
        \A i \in 1..Len(Val(response).products) :
            Val(response).products[i].source \in Val(req).sources

(***************************************************************************)
(* Properties of the Query Builder                                         *)
(***************************************************************************)
\* C6: the wire parameters produced by execute() encode every accumulated
\* predicate, also when two or more predicates were added for one column.
C6_EveryPredicateOnTheWire ==
    qbSent # <<>> =>
        LET params == qbSent[Len(qbSent)].params
        IN  \A i \in 1..Len(qb._filters) :
                /\ qb._filters[i][1] \in DOMAIN params
                /\ params[qb._filters[i][1]][1] = qb._filters[i][2]
                /\ params[qb._filters[i][1]][2] = qb._filters[i][3]

\* C9: two executes with no chain call in between send the same table,
\* query parameters and headers, and leave every builder field unchanged.
C9_ExecuteIdempotent ==
    /\ Len(qbSent) = 2 => qbSent[1] = qbSent[2]
    /\ qbBefore # None => qb = Val(qbBefore)

\* C9 witness: a builder with a predicate and a page window was executed twice
C9_Witness ==
    /\ Len(qbSent) = 2
    /\ Len(qb._filters) = 1
    /\ qb._limit_val # None
    /\ "Range" \in DOMAIN qbSent[2].headers

C8_NoCallRaises ==
    \A t \in Threads :
        /\ th[t].pc # "raised"
        /\ (th[t].pc = "returned" /\ th[t].op = "get" /\ th[t].ret # None)
              => Val(th[t].ret) \in everSet[th[t].key]

(***************************************************************************)
(* Properties of the post-fetch filtering                                  *)
(***************************************************************************)
InSeq(p, products) == \E i \in 1..Len(products) : products[i] = p

PriceDropNoData(p) == p.current_price = None \/ p.original_price = None
PriceDropPasses(p) ==
    /\ p.current_price # None /\ p.original_price # None
    /\ Val(p.current_price) < Val(p.original_price)
ActiveNoData(p) == p.is_active = None
ActivePasses(p) == p.is_active = Some(TRUE)

\* C11: with has_price_drop or active_only requested (and no brand or
\* category filter), a merged product is kept by the post-fetch filtering
\* exactly when, for each requested test, it passes the test or has no data
\* for it: products with a missing price or a missing activity flag are
\* kept, only products whose data fails the test are removed.
C11_ResidualKeepsNoData ==
    (/\ pc = "done"
     /\ Val(req).has_price_drop \/ Val(req).active_only
     /\ Val(req).brands_filter = {} /\ Val(req).categories_filter = {}) =>
        \A i \in 1..Len(merged) :
            LET p == merged[i]
            IN  InSeq(p, all_products) <=>
                    /\ Val(req).has_price_drop =>
                            PriceDropPasses(p) \/ PriceDropNoData(p)
                    /\ Val(req).active_only => ActivePasses(p) \/ ActiveNoData(p)

\* C12: with a brands (categories) filter, every product of the response
\* has a brand (category) of the filter list or no brand (category) at all,
\* whatever the sources of the request.
C12_BrandCategoryFilter ==
    Responded =>
        \A i \in 1..Len(Val(response).products) :
            LET p == Val(response).products[i]
            IN  /\ Val(req).brands_filter # {} =>
                        p.brand = None \/ Val(p.brand) \in Val(req).brands_filter
                /\ Val(req).categories_filter # {} =>
                        p.category = None \/ Val(p.category) \in Val(req).categories_filter

(***************************************************************************)
(* Properties of the per-source fetch                                      *)
(***************************************************************************)
\* the number of rows the Range header of a request asks for
RowsRequested(request) == request.headers["Range"][2] - request.headers["Range"][1] + 1

\* C13: every per-source product query carries a row window of at most
\* min(page * per_page + per_page, 500) rows, and the source gives at most
\* that many (so never more than 500) rows to the merged set.
C13_FetchBounded ==
    \A s \in SourceSteps :
        sent[s] # None =>
            LET q == Val(sent[s])
                r == Val(req)
            IN  /\ "Range" \in DOMAIN q.request.headers
                /\ RowsRequested(q.request)
                        <= Min(r.page * r.per_page + r.per_page, 500)
                /\ q.rows <= RowsRequested(q.request)
                /\ q.rows <= 500

\* C13 witness: a request for a page so deep that page * per_page + per_page
\* exceeds 500 was sent to a source with a window of 500 rows, and in
\* the same request the source answered
C13_Witness ==
    /\ req # None
    /\ Val(req).page * Val(req).per_page + Val(req).per_page > 500
    /\ \E s \in SourceSteps :
          /\ sent[s] # None
          /\ RowsRequested(Val(sent[s]).request) = 500
          /\ Val(sent[s]).rows > 0

(***************************************************************************)
(* Properties of the schema adapters                                       *)
(***************************************************************************)
\* every row of the store with the Product its schema adapter makes of it
AdapterRows ==
    UNION {{[table |-> DEAL_TABLES[k].name,
             row |-> db[DEAL_TABLES[k].name][i],
             product |-> normalize_deal(db[DEAL_TABLES[k].name][i],
                                        DEAL_TABLES[k].name, DEAL_TABLES[k].source)] :
                i \in 1..Len(db[DEAL_TABLES[k].name])} : k \in 1..Len(DEAL_TABLES)}
    \cup {[table |-> "retailer_products",
           row |-> db["retailer_products"][i],
           product |-> IF Get(db["retailer_products"][i], "extra_data") = Some(CocoSource)
                       THEN normalize_cocoprice(db["retailer_products"][i])
                       ELSE normalize_retailer(db["retailer_products"][i])] :
                i \in 1..Len(db["retailer_products"])}
    \cup {[table |-> "costco_user_photos",
           row |-> db["costco_user_photos"][i],
           product |-> normalize_costco_photo(db["costco_user_photos"][i])] :
                i \in 1..Len(db["costco_user_photos"])}

\* the stored discount and the prices of a row
StoredDiscount(row) ==
    IF Get(row, "sale_percentage") # None THEN Get(row, "sale_percentage")
    ELSE Get(row, "discount_percent")
RowCurrent(row) ==
    IF Get(row, "current_price") # None THEN Get(row, "current_price") ELSE Get(row, "price")
RowOriginal(row) == Get(row, "original_price")

\* round(n / d, 1) in tenths, for n >= 0 and d > 0 (ties of the model's
\* values do not occur)
RoundTenths(n, d) == (n * 20 + d) \div (2 * d)

\* the discount percent, in tenths, that the discount derivation gives
DerivedDiscountTenths(stored, current, original) ==
    IF stored # None /\ Val(stored) > 0 THEN Val(stored) * 10
    ELSE IF /\ current # None /\ original # None
            /\ Val(original) > 0 /\ Val(current) > 0 /\ Val(current) < Val(original)
         THEN RoundTenths((Val(original) - Val(current)) * 100, Val(original))
         ELSE IF stored # None THEN Val(stored) * 10 ELSE 0

\* C14: the discount percent of every Product a schema adapter produced is
\* the stored discount when that is present and positive, else the rounded
\* percentage derived from the prices when 0 < current < original, else the
\* stored value or 0.
C14_DiscountDerivation ==
    \A a \in AdapterRows :
        InSeq(a.product, all_products) =>
            /\ a.product.discount_percent # None
            /\ Val(a.product.discount_percent) * 10
                  = DerivedDiscountTenths(StoredDiscount(a.row), RowCurrent(a.row),
                                          RowOriginal(a.row))

\* the raw title of a row
RawTitle(row) ==
    IF Get(row, "title") # None THEN Val(Get(row, "title"))
    ELSE IF Get(row, "name") # None THEN Val(Get(row, "name")) ELSE ""

\* a title that is empty or only an optional "N% off" and one promo phrase
\* or countdown token, on the titles of the model
IsBarePromo(title) ==
    title \in {"", "75% offLimited-time deal", "Limited-time deal", "Ends in01:37:10"}

\* the title with a leading "N% off" stripped, on the titles of the model
CleanedTitle(title) ==
    IF title = "75% offNintendo Switch OLED" THEN "Nintendo Switch OLED" ELSE title

\* the sources whose scraped titles carry promo badges
PromoPolluted(product) == product.source = "amazon_ca"

\* C15: the title of a Product of a promo-polluted source is never a bare
\* promo badge: a raw title that is empty or only a badge gives a fallback
\* title, and any other raw title gives its cleaned remainder.
C15_TitleNeverBarePromo ==
    \A a \in AdapterRows :
        (InSeq(a.product, all_products) /\ PromoPolluted(a.product)) =>
            /\ ~IsBarePromo(a.product.title)
            /\ ~IsBarePromo(RawTitle(a.row)) =>
                    a.product.title = CleanedTitle(RawTitle(a.row))

\* C16: two products of the merged set with the same identifier come from
\* the same backing table and the same native row id; rows of different
\* tables never get the same identifier.
C16_IdentifiersUnique ==
    pc = "done" =>
        LET fetched == {a \in AdapterRows : InSeq(a.product, merged)}
        IN  \A a, b \in fetched :
                a.product.id = b.product.id =>
                    a.table = b.table /\ a.row["id"] = b.row["id"]

\* C16 witness: the merged set of a served request holds rows of three
\* different tables that have the same native id
C16_Witness ==
    /\ pc = "done"
    /\ \E i, j, k \in 1..Len(merged) :
          /\ merged[i].id = "amazon_ca_deals_1"
          /\ merged[j].id = "retailer_1"
          /\ merged[k].id = "costco_photo_1"

(***************************************************************************)
(* Properties of the failure handling                                      *)
(***************************************************************************)
\* C17: when the query of at least one eligible source failed, the response
\* is marked as approximate.
C17_FailureMarkedApproximate ==
    (Responded /\ Failures >= 1) =>
        /\ "approximate" \in DOMAIN Val(response)
        /\ Val(response)["approximate"] = TRUE

(***************************************************************************)
(* Properties of the paging parameters                                     *)
(***************************************************************************)
\* C18: whatever the raw page and per_page (absent, non-numeric, zero,
\* negative, very large), the effective page is at least 1, the effective
\* per_page is in 1..100, and the response holds at most per_page products.
C18_PagingClamped ==
    /\ \A raw \in RawPages : ParsePage(raw) >= 1
    /\ \A raw \in RawPerPages : ParsePerPage(raw) \in 1..100
    /\ req # None => Val(req).page >= 1 /\ Val(req).per_page \in 1..100
    /\ Responded => Len(Val(response).products) <= Val(req).per_page

\* C18 witness: a request with a very large raw per_page was served with
\* per_page 100, and its response holds products
C18_Witness ==
    /\ Responded
    /\ Some(LargeRaw) \in RawPerPages /\ LargeRaw > 100
    /\ Val(req).per_page = 100
    /\ Val(response).per_page = 100
    /\ Len(Val(response).products) > 0

(***************************************************************************)
(* Properties of the order of the steps                                    *)
(***************************************************************************)
\* C19: the post-fetch filtering, the sort and the pagination begin only
\* when the fetch of every source of the request has completed, failed or
\* been skipped as not eligible, and once they have begun no product is
\* added: the sorted list holds only products of the merged set.
C19_MergeAfterAllFetches ==
    /\ pc \in {"merge", "done"} =>
            \A s \in SourceSteps : report[s] \in {"ok", "failed", "skipped"}
    /\ pc = "done" =>
            /\ Len(all_products) <= Len(merged)
            /\ \A i \in 1..Len(all_products) : InSeq(all_products[i], merged)

\* C19 witness: a request was served whose first source failed and whose
\* last source gave rows, all of them in the merged set
C19_Witness ==
    /\ pc = "done"
    /\ report["deals"] = "failed"
    /\ report["cocoprice"] = "ok"
    /\ sent["cocoprice"] # None /\ Val(sent["cocoprice"]).rows > 0
    /\ \E i \in 1..Len(merged) : merged[i].source = "cocopricetracker"

(***************************************************************************)
(* Properties of the outcome of execute()                                  *)
(***************************************************************************)
\* C20: execute() fails with TransportError when the connection fails or
\* times out and with ProtocolError on a non-success response or a body it
\* cannot parse, and does not fail on a successful response, so that the
\* two failures differ from each other and from a success with zero rows.
C20_TypedFailures ==
    qbResult # None =>
        LET o == Val(qbResult)
        IN  /\ o.reply = "transport" => o.raised = Some("TransportError")
            /\ o.reply \in {"status", "badjson"} => o.raised = Some("ProtocolError")
            /\ o.reply = "ok" => o.raised = None /\ o.result.error = None
(***************************************************************************)
(* Properties of the total count and of the row window                     *)
(***************************************************************************)
\* the decimal texts of the model's totals
IntegerTexts == {"0", "1", "7"}
IntegerOf(text) == CASE text = "0" -> 0 [] text = "1" -> 1 [] OTHER -> 7

\* C22: the count execute() returns for a successful response is the
\* integer after the "/" of the Content-Range header, and is None, never 0,
\* when that part is "*", is not an integer, or the header is missing.
C22_CountFromHeader ==
    (qbResult # None /\ Val(qbResult).reply = "ok") =>
        LET h == Val(qbResult).content_range
            count == Val(qbResult).result.count
        IN  IF Len(h) >= 2 /\ h[Len(h)] \in IntegerTexts
            THEN count = Some(IntegerOf(h[Len(h)]))
            ELSE count = None

\* C22 witness: a response whose total is "*" gave a result with rows and
\* the count None
C22_Witness ==
    /\ qbResult # None
    /\ Val(qbResult).reply = "ok"
    /\ Val(qbResult).content_range = <<"0-0", "*">>
    /\ Val(qbResult).result.count = None
    /\ Len(Val(qbResult).result.data) = 1

\* C28: with a limit set, the Range header execute() sends starts at the
\* offset (0 when none is set), ends at offset + limit - 1, and its end is
\* never below its start, also for limit 0.
C28_RangeIsWindow ==
    (qbSent # <<>> /\ qb._limit_val # None) =>
        LET range == qbSent[Len(qbSent)].headers["Range"]
            first == IF qb._offset_val = None THEN 0 ELSE Val(qb._offset_val)
        IN  /\ range[1] = first
            /\ range[2] = first + Val(qb._limit_val) - 1
            /\ range[2] >= range[1]
(***************************************************************************)
(* Properties of the cache under concurrent requests                       *)
(***************************************************************************)
\* C30: a get that found an expired entry never removes the entry a
\* concurrent set has stored since: after a set(key, v, ttl) not followed by
\* a set or an invalidate of the key, the entry (v, t + ttl) is in the store
\* until its expiry, so that a get(key) before the expiry returns v.
C30_EvictionSparesFresh ==
    \A k \in Keys :
        (lastSet[k] # None /\ now < Val(lastSet[k]).at + Val(lastSet[k]).ttl) =>
            _store[k] = Some([value |-> Val(lastSet[k]).value,
                              expires_at |-> Val(lastSet[k]).at + Val(lastSet[k]).ttl])
(***************************************************************************)
(* Properties of the bounded per-source fetch                              *)
(***************************************************************************)
\* a request without its row window
Unbounded(request) ==
    [request EXCEPT !.headers =
        [x \in (DOMAIN request.headers) \ {"Range", "Range-Unit"} |-> request.headers[x]]]

\* the rows the store gives for a query, inside its row window or without it
SourceRows(tables, query, bounded) ==
    StoreSelect(tables, IF bounded THEN ExecuteRequest(query)
                        ELSE Unbounded(ExecuteRequest(query)))

RECURSIVE DealRows(_, _, _, _)
DealRows(tables, r, bounded, i) ==
    IF i = 0 THEN <<>>
    ELSE DealRows(tables, r, bounded, i - 1) \o
         (IF DealTableSkipped(r.sources, DEAL_TABLES[i]) THEN <<>>
          ELSE NormalizeDeals(SourceRows(tables, DealQuery(r, DEAL_TABLES[i]), bounded),
                              DEAL_TABLES[i]))

\* the merged set of a request all of whose source queries succeed
ListingRows(tables, r, bounded) ==
    DealRows(tables, r, bounded, Len(DEAL_TABLES))
    \o (IF IncludeRetailer(r.sources)
        THEN NormalizeRetailer(SourceRows(tables, RetailerQuery(r), bounded)) ELSE <<>>)
    \o (IF IncludeCostco(r.sources)
        THEN NormalizeCostco(SourceRows(tables, CostcoQuery(r), bounded)) ELSE <<>>)
    \o (IF IncludeCocoprice(r.sources)
        THEN NormalizeCocoprice(SourceRows(tables, CocopriceQuery(r), bounded)) ELSE <<>>)

\* the sorted, filtered list of such a request
ListingSorted(tables, r, bounded) ==
    SortProducts(PostFilter(ListingRows(tables, r, bounded), r), r.sort_by, r.ascending)

\* the served request agrees with the listing computed as a function
ListingAgrees ==
    (Responded /\ Failures = 0) => all_products = ListingSorted(db, Val(req), TRUE)

\* C25: with the filters and the data unchanged, total and total_pages are
\* the same whatever page is requested.
C25_TotalIndependentOfPage ==
    (Responded /\ Failures = 0) =>
        \A p \in 1..MaxPage :
            LET other == [Val(req) EXCEPT !.page = p]
                n == Len(ListingSorted(db, other, TRUE))
            IN  /\ n = Val(response).total
                /\ TotalPages(n, other.per_page) = Val(response).total_pages

SortKeys(products, sort_by) ==
    [i \in 1..Len(products) |-> SortKey(products[i], sort_by)]

\* C26: page 1 of the response is the first per_page items, in the
\* requested order, of all the matching rows of all the eligible sources,
\* also when a source holds more matching rows than the fetch limit.  The
\* two pages are compared by the values of the sort field, so that rows of
\* equal value may stand for each other.
C26_PageOneIsGlobalPrefix ==
    (Responded /\ Failures = 0 /\ Val(req).page = 1) =>
        LET r == Val(req)
        IN  SortKeys(Val(response).products, r.sort_by)
              = SortKeys(Paginate(ListingSorted(db, r, FALSE), 1, r.per_page), r.sort_by)
(***************************************************************************)
(* Termination of the products listing                                     *)
(***************************************************************************)
\* C24: every products-listing request that has been received is
\* eventually answered, and by then every source of the request has been
\* queried (its fetch completed or failed) or skipped as not eligible.
C24_EveryRequestAnswered ==
    (req # None) ~>
        (/\ pc = "done"
         /\ response # None
         /\ \A s \in SourceSteps : report[s] \in {"ok", "failed", "skipped"})

\* C24 witness: a request one of whose sources timed out was answered, the
\* sources after the failing one having been queried
C24_Witness ==
    /\ pc = "done"
    /\ response # None
    /\ report["amazon_ca_deals"] = "failed"
    /\ report["retailer"] = "ok" /\ report["costco"] = "ok" /\ report["cocoprice"] = "ok"
(***************************************************************************)
(* get_product (app.py 824-959) and health (app.py 230-246)                *)
(*                                                                         *)
(* Of the detail response the product fields of the normalization and      *)
(* price_history are kept; description, copied from the row, is left out.  *)
(***************************************************************************)
\* the native row ids a product id of the model may carry
NativeIds == 1..9

\* product_id.startswith(prefix) and the id that follows the prefix, on
\* the product ids of the model (a prefix followed by a native row id)
IdOf(prefix, product_id) ==
    IF \E n \in NativeIds : product_id = prefix \o ToString(n)
    THEN Some(CHOOSE n \in NativeIds : product_id = prefix \o ToString(n))
    ELSE None

\* the prefix routing of get_product (833-848): the three fixed prefixes,
\* then the first table of DEAL_TABLES whose "<name>_" begins the id, then
\* the deals table with "deal_" removed; an id that is no row id is 0 here
Route(product_id) ==
    IF IdOf("costco_photo_", product_id) # None
    THEN [kind |-> "costco", table |-> "costco_user_photos",
          actual_id |-> Val(IdOf("costco_photo_", product_id))]
    ELSE IF IdOf("cocoprice_", product_id) # None
    THEN [kind |-> "cocoprice", table |-> "retailer_products",
          actual_id |-> Val(IdOf("cocoprice_", product_id))]
    ELSE IF IdOf("retailer_", product_id) # None
    THEN [kind |-> "retailer", table |-> "retailer_products",
          actual_id |-> Val(IdOf("retailer_", product_id))]
    ELSE LET hits == {i \in 1..Len(DEAL_TABLES) :
                        IdOf(DEAL_TABLES[i].name \o "_", product_id) # None}
         IN  IF hits # {}
             THEN LET i == CHOOSE i \in hits : \A j \in hits : i <= j
                  IN  [kind |-> "deal", table |-> DEAL_TABLES[i].name,
                       actual_id |-> Val(IdOf(DEAL_TABLES[i].name \o "_", product_id))]
             ELSE [kind |-> "deal", table |-> "deals",
                   actual_id |-> IF IdOf("deal_", product_id) # None
                                 THEN Val(IdOf("deal_", product_id)) ELSE 0]

\* sb.table(t).select("*").eq("id", actual_id).limit(1) (875, 900, 924, 940)
RowQuery(table_name, actual_id) ==
    limit(eq(select(NewBuilder(table_name), "*", None), "id", actual_id), 1)

\* the price history query of a product (883, 908, 948)
HistoryQuery(route) ==
    IF route.kind = "deal"
    THEN order(eq(select(NewBuilder("deal_price_history"),
                         "price, original_price, scraped_at, is_on_sale", None),
                  "deal_id", route.actual_id), "scraped_at", FALSE)
    ELSE order(eq(select(NewBuilder("price_history"),
                         "price, original_price, scraped_at, is_on_sale", None),
                  "retailer_product_id", route.actual_id), "scraped_at", FALSE)

\* the list comprehension over h_result.data (884, 909, 949)
HistoryPoints(rows) ==
    [i \in 1..Len(rows) |->
        [price |-> rows[i]["price"], original_price |-> Get(rows[i], "original_price"),
         scraped_at |-> rows[i]["scraped_at"],
         is_on_sale |-> GetDefault(rows[i], "is_on_sale", Some(FALSE))]]

\* datetime.now(timezone.utc) (855, 861): later than every stored timestamp
NowStamp == 99

\* _build_price_history (851-870)
_build_price_history(data, price_key, first_seen_key, last_seen_key) ==
    LET current == Or(Get(data, price_key), Get(data, "price"))
        original == Get(data, "original_price")
        first_seen == Or(Or(Get(data, first_seen_key), Get(data, "created_at")),
                         Some(NowStamp))
    IN  IF Truthy(original) /\ Truthy(current) /\ Val(original) > Val(current)
        THEN << [price |-> original, original_price |-> original,
                 scraped_at |-> first_seen, is_on_sale |-> Some(FALSE)],
                [price |-> current, original_price |-> original,
                 scraped_at |-> Or(Or(Get(data, last_seen_key), Get(data, "updated_at")),
                                   Some(NowStamp)),
                 is_on_sale |-> Some(TRUE)] >>
        ELSE << [price |-> current, original_price |-> original,
                 scraped_at |-> first_seen,
                 is_on_sale |-> Some(Truthy(Or(Get(data, "discount_percent"), Some(0))))] >>

\* the synthetic history each detail function asks for (889, 914, 930, 954)
SyntheticHistory(route, data) ==
    CASE route.kind = "deal" ->
            _build_price_history(data, "current_price", "date_added", "date_updated")
      [] route.kind = "costco" ->
            _build_price_history(data, "price", "scraped_at", "updated_at")
      [] OTHER ->
            _build_price_history(data, "current_price", "first_seen_at", "last_seen_at")

\* the product each detail function normalizes the row into (891-892, 916,
\* 932, 956)
DetailProduct(route, data) ==
    CASE route.kind = "deal" ->
            normalize_deal(data, route.table,
                           OrS(Get(data, "source"),
                               Some(IF route.table # "deals" THEN StripDeals(route.table)
                                    ELSE "deals")))
      [] route.kind = "retailer" -> normalize_retailer(data)
      [] route.kind = "costco" -> normalize_costco_photo(data)
      [] OTHER -> normalize_cocoprice(data)

\* mutant: a lookup that finds no row answers 200
NotFound_Ok == [status |-> 200, body |-> [error |-> "Product not found"]]

\* `return jsonify({"error": "Product not found"}), 404` (877, 902, 926, 942)
NotFound == [status |-> 404, body |-> [error |-> "Product not found"]]

\* `return jsonify(product)` with product["price_history"] = history (893-895)
Found(product, history) == [status |-> 200, body |-> Put(product, "price_history", history)]

\* the replies a query of these endpoints may get
DetailKinds == {"ok", "status", "transport", "badjson"}

\* the product ids of the modelled lookups: the id of every row of the
\* store as the listing gives it, ids of rows that do not exist, and an id
\* without a table prefix
ProductIds ==
    UNION {{ProductId(DEAL_TABLES[k].name, db[DEAL_TABLES[k].name][i]) :
                i \in 1..Len(db[DEAL_TABLES[k].name])} : k \in 1..Len(DEAL_TABLES)}
    \cup {ProductId(IF Get(db["retailer_products"][i], "extra_data") = Some(CocoSource)
                    THEN "cocoprice" ELSE "retailer", db["retailer_products"][i]) :
                i \in 1..Len(db["retailer_products"])}
    \cup {ProductId("costco_photo", db["costco_user_photos"][i]) :
                i \in 1..Len(db["costco_user_photos"])}
    \cup {"deals_9", "retailer_9", "costco_photo_9", "cocoprice_9", "deal_1"}

\* GET /api/product/<product_id>: the id is routed (824-848)
GetProduct ==
    /\ ep.pc = "idle"
    /\ \E product_id \in ProductIds :
          ep' = [EpIdle EXCEPT !.pc = "row", !.endpoint = "product",
                               !.product_id = product_id,
                               !.route = Some(Route(product_id))]
    /\ epResponse' = None
    /\ UNCHANGED <<cacheVars, qbVars, plVars>>

\* the row query of a detail function and its `if not result.data` (875-878,
\* 900-903, 924-927, 940-943); _get_costco_photo_detail makes no history
\* query and answers at once (929-935)
DetailRow ==
    /\ ep.pc = "row"
    /\ \E kind \in DetailKinds :
          LET route == Val(ep.route)
              result == Execute(db, RowQuery(route.table, route.actual_id), kind)
          IN  IF result.data = <<>>
              THEN /\ ep' = [ep EXCEPT !.pc = "done", !.row_reply = kind]
                   /\ epResponse' = Some(NotFound)
              ELSE IF route.kind = "costco"
              THEN /\ ep' = [ep EXCEPT !.pc = "done", !.row_reply = kind,
                                       !.data = Some(result.data[1])]
                   /\ epResponse' = Some(Found(DetailProduct(route, result.data[1]),
                                               SyntheticHistory(route, result.data[1])))
              ELSE /\ ep' = [ep EXCEPT !.pc = "history", !.row_reply = kind,
                                       !.data = Some(result.data[1])]
                   /\ epResponse' = epResponse
    /\ UNCHANGED <<cacheVars, qbVars, plVars>>

\* the history query, the synthetic history when it gave nothing, and the
\* response (880-895, 905-919, 945-959)
DetailHistory ==
    /\ ep.pc = "history"
    /\ \E kind \in DetailKinds :
          LET route == Val(ep.route)
              data == Val(ep.data)
              h_result == Execute(db, HistoryQuery(route), kind)
              history == HistoryPoints(h_result.data)
              final == IF history = <<>> THEN SyntheticHistory(route, data) ELSE history
          IN  /\ ep' = [ep EXCEPT !.pc = "done", !.history_reply = kind]
              /\ epResponse' = Some(Found(DetailProduct(route, data), final))
    /\ UNCHANGED <<cacheVars, qbVars, plVars>>

\* the test query of health (237)
HealthQuery == limit(select(NewBuilder("deals"), "id", Some("exact")), 1)

\* what health answers (234-246): the except branch is reached only when
\* get_supabase raises, which it does when the URL or the key is not
\* configured (config.py 262-270); execute() itself raises nothing
HealthResponse(configured, result) ==
    IF configured
    THEN [status |-> 200,
          body |-> [status |-> "ok", database |-> "connected", deals_count |-> result.count]]
    ELSE [status |-> 500,
          body |-> [status |-> "error", database |-> "disconnected",
                    error |-> "SUPABASE_URL and SUPABASE_SERVICE_KEY must be set in .env"]]

\* GET /api/health (230-246)
Health ==
    /\ ep.pc = "idle"
    /\ \E configured \in BOOLEAN, kind \in DetailKinds :
          /\ ep' = [EpIdle EXCEPT !.pc = "done", !.endpoint = "health",
                                  !.row_reply = IF configured THEN kind ELSE "none"]
          /\ epResponse' = Some(HealthResponse(configured, Execute(db, HealthQuery, kind)))
    /\ UNCHANGED <<cacheVars, qbVars, plVars>>

\* the response has been sent
EpReturn ==
    /\ ep.pc = "done"
    /\ ep' = EpIdle
    /\ epResponse' = None
    /\ UNCHANGED <<cacheVars, qbVars, plVars>>

\* the single-item lookup and the health check serving one call after the other
NextDetail ==
    \/ GetProduct
    \/ DetailRow
    \/ DetailHistory
    \/ Health
    \/ EpReturn

SpecDetail == Init /\ [][NextDetail]_vars
(***************************************************************************)
(* Properties of the single-item lookup and of the health check            *)
(***************************************************************************)
\* a product lookup has been answered
LookedUp == ep.pc = "done" /\ ep.endpoint = "product"

\* the store holds the row the lookup was routed to
RowExists ==
    \E i \in 1..Len(db[Val(ep.route).table]) :
        db[Val(ep.route).table][i]["id"] = Some(Val(ep.route).actual_id)

\* the body of the response is a product
IsProduct(body) == "id" \in DOMAIN body

\* C21: a single-item lookup answers with a product only when the row is in
\* the table the identifier resolves to; when the row is absent or its query
\* failed, the answer is an error body with a non-2xx status and no product.
C21_LookupFoundOrError ==
    LookedUp =>
        LET resp == Val(epResponse)
        IN  /\ IsProduct(resp.body) => RowExists /\ ep.row_reply = "ok"
            /\ (~RowExists \/ ep.row_reply # "ok") =>
                    /\ resp.status \notin 200..299
                    /\ "error" \in DOMAIN resp.body
                    /\ ~IsProduct(resp.body)

\* C21 witness: the row exists but its query timed out, and the lookup
\* answered 404 with an error body
C21_Witness ==
    /\ LookedUp
    /\ RowExists
    /\ ep.row_reply = "transport"
    /\ Val(epResponse).status = 404
    /\ "error" \in DOMAIN Val(epResponse).body

\* the lookup found its row and no stored price series: the product has no
\* history table, the history query failed, or it gave no rows
NoStoredSeries ==
    /\ LookedUp
    /\ IsProduct(Val(epResponse).body)
    /\ \/ Val(ep.route).kind = "costco"
       \/ ep.history_reply # "ok"
       \/ StoreSelect(db, ExecuteRequest(HistoryQuery(Val(ep.route)))) = <<>>

\* C23: when no stored price series exists for the product, the attached
\* history is two points, the original price at the product's first-seen
\* time then the current price at its last-seen time, when both prices are
\* present and original > current, and otherwise one point with the current
\* price.
C23_SyntheticHistory ==
    NoStoredSeries =>
        LET body == Val(epResponse).body
            h == body["price_history"]
            current == body["current_price"]
            original == body["original_price"]
        IN  IF current # None /\ original # None /\ Val(original) > Val(current)
            THEN /\ Len(h) = 2
                 /\ h[1].price = original
                 /\ body["first_seen_at"] # None => h[1].scraped_at = body["first_seen_at"]
                 /\ h[2].price = current
                 /\ body["last_seen_at"] # None => h[2].scraped_at = body["last_seen_at"]
            ELSE Len(h) = 1 /\ h[1].price = current

\* the canonical fields of a product
CanonicalFields ==
    {"id", "store", "source", "current_price", "original_price", "discount_percent",
     "first_seen_at", "last_seen_at"}

\* C27: the lookup of the identifier of a product of the listing resolves to
\* the table and the native row id the product was made from, and answers
\* with a product that has the same identifier and the same canonical field
\* values.
C27_LookupAgreesWithListing ==
    (LookedUp /\ ep.row_reply = "ok") =>
        \A a \in AdapterRows :
            a.product.id = ep.product_id =>
                /\ Val(ep.route).table = a.table
                /\ Some(Val(ep.route).actual_id) = a.row["id"]
                /\ IsProduct(Val(epResponse).body)
                /\ \A f \in CanonicalFields : Val(epResponse).body[f] = a.product[f]

\* C29: the health check answers status "ok" and database "connected" only
\* when its test query succeeded; when the query fails it answers status
\* "error" with HTTP 500.
C29_HealthReflectsQuery ==
    (ep.pc = "done" /\ ep.endpoint = "health") =>
        LET resp == Val(epResponse)
        IN  /\ (resp.body.status = "ok" \/ resp.body.database = "connected")
                    => ep.row_reply = "ok"
            /\ ep.row_reply # "ok" => resp.body.status = "error" /\ resp.status = 500
====
